---------------------------- MODULE Spec2Model ----------------------------
(***************************************************************************)
(* Model of the turnstile Mutex of src/turnstile.h and src/turnstile.cpp.  *)
(*                                                                         *)
(* A Mutex is one pointer p_turnstile (nullptr, &gate_turnstile, or a heap *)
(* turnstile).  lock() and unlock() serialise on one std::mutex of the     *)
(* global table mutex[NUMBER_OF_MUTEXES], chosen by the Mutex's address.   *)
(* Client threads call lock() and unlock() on the Mutexes of Locks; every  *)
(* step of a call that another thread can observe is one action.           *)
(***************************************************************************)
EXTENDS Integers, Sequences, FiniteSets, TLC

(***************************************************************************)
(* Bounds of the model.                                                    *)
(***************************************************************************)
NumThreads == 3        \* client threads
MaxCalls == 4          \* lock() calls made in a run, all threads together
MaxMisuse == 1         \* unlock() calls made on a Mutex nobody has locked

Threads == 1..NumThreads

(***************************************************************************)
(* Program constants.                                                      *)
(***************************************************************************)
NUMBER_OF_MUTEXES == 389

\* The Mutex objects of the run and their addresses: two 8-byte objects
\* whose addresses are congruent modulo NUMBER_OF_MUTEXES.
Locks == {"A", "B"}
AddressOf(l) == IF l = "A" THEN 4096 ELSE 4096 + 8 * NUMBER_OF_MUTEXES

\* uintptr_t mutex_id = reinterpret_cast<uintptr_t>(this) % NUMBER_OF_MUTEXES
MutexId(l) == AddressOf(l) % NUMBER_OF_MUTEXES

MutexIds == {MutexId(l) : l \in Locks}

\* Values of Mutex::p_turnstile that are no heap turnstile.  Heap
\* turnstiles are the indices 1..Len(heap); an index is never reused.
NULL == 0
GATE == -1

NoThread == 0
NoLock == "none"

VARIABLES
    p_turnstile,   \* [Locks -> {NULL, GATE} \cup 1..Len(heap)]
    heap,          \* sequence of turnstile objects made by new
    mutex,         \* [MutexIds -> Threads \cup {NoThread}]: owner of each global mutex
    pc,            \* [Threads -> position of the thread in lock()/unlock()]
    arg,           \* [Threads -> the Mutex the thread's current call is on]
    self,          \* [Threads -> the turnstile `this` of the call, NULL outside one]
    canDrop,       \* [Threads -> local canDrop of unlock()]
    held,          \* [Threads -> Mutexes the thread has locked and not yet unlocked]
    ncalls,        \* number of lock() calls made
    nmisuse,       \* number of unlock() calls made on an unlocked Mutex
    raised,        \* Mutexes whose unlock() has thrown
    ub             \* undefined behaviour the run has executed

vars == <<p_turnstile, heap, mutex, pc, arg, self, canDrop, held, ncalls,
          nmisuse, raised, ub>>

(***************************************************************************)
(* struct Mutex::turnstile                                                 *)
(***************************************************************************)
\* NewTurnstile with wait(false) in the constructor's initialiser list.
NewTurnstileOpen == [live |-> TRUE, cnt_waiting |-> 0, wait |-> FALSE, cv_m |-> NoThread]

\* explicit turnstile(std::mutex* _mutex, std::condition_variable* _cv)
NewTurnstile == [live |-> TRUE, cnt_waiting |-> 0, wait |-> TRUE, cv_m |-> NoThread]

\* What is left of a turnstile after delete this.
Freed == [live |-> FALSE, cnt_waiting |-> 0, wait |-> TRUE, cv_m |-> NoThread]

\* empty() that never reports an empty turnstile.
emptyNever(ts) == FALSE

\* empty() off by one: true with one thread still counted.
emptyOffByOne(ts) == ts.cnt_waiting <= 1

\* bool empty()
empty(ts) == ts.cnt_waiting = 0

\* canDropAfterSpin() testing the count the queue has after the wake.
canDropAfterSpinZero(ts) == ts.cnt_waiting = 0

\* bool canDropAfterSpin()
canDropAfterSpin(ts) == ts.cnt_waiting = 1

\* PassPredicate with the statement this->wait = true left out.
PassPredicateNoClose(ts) == [ts EXCEPT !.cnt_waiting = @ - 1]

\* The body of the wait predicate when wait is false:
\* this->cnt_waiting--; this->wait = true; return true;
PassPredicate(ts) == [ts EXCEPT !.cnt_waiting = @ - 1, !.wait = TRUE]

IsHeap(id) == id \in 1..Len(heap)

\* The wait predicate without its test: true whatever the flag is.
MayPassAlways(ts) == TRUE

\* if (!this->wait) in the predicate of cv->wait()
MayPass(ts) == ~ts.wait

\* Locking cv_m without waiting for its owner to unlock it.
CvmFreeAlways(ts) == TRUE

\* std::mutex::lock() on *cv_m returns when no thread owns it.
CvmFree(ts) == ts.cv_m = NoThread

\* The threads blocked in cv->wait() of turnstile id.
Sleepers(id) == {t \in Threads : pc[t] = "g_sleep" /\ self[t] = id}

\* A member access through a turnstile pointer that points at no live heap
\* turnstile: gate_turnstile has cv_m == nullptr, a deleted turnstile is gone.
BadAccess(id) ==
    IF id = GATE \/ id = NULL THEN {"null_deref"}
    ELSE IF ~heap[id].live THEN {"use_after_free"}
    ELSE {}

\* The thread of a call that has executed undefined behaviour stops.
Fault(t, what) ==
    /\ ub' = ub \cup what
    /\ pc' = [pc EXCEPT ![t] = "faulted"]
    /\ UNCHANGED <<p_turnstile, heap, mutex, arg, self, canDrop, held,
                   ncalls, nmisuse, raised>>

(***************************************************************************)
(* Initial state: Mutex::Mutex() : p_turnstile(nullptr), no call running.  *)
(***************************************************************************)
Init ==
    /\ p_turnstile = [l \in Locks |-> NULL]
    /\ heap = <<>>
    /\ mutex = [i \in MutexIds |-> NoThread]
    /\ pc = [t \in Threads |-> "idle"]
    /\ arg = [t \in Threads |-> NoLock]
    /\ self = [t \in Threads |-> NULL]
    /\ canDrop = [t \in Threads |-> FALSE]
    /\ held = [t \in Threads |-> {}]
    /\ ncalls = 0
    /\ nmisuse = 0
    /\ raised = {}
    /\ ub = {}


(***************************************************************************)
(* The client threads.  A thread outside any call ("idle") may call lock() *)
(* on a Mutex when it holds none, unlock() on a Mutex it holds, and, as the *)
(* misuse the code reports, unlock() on a Mutex that no thread has locked  *)
(* or is locking.                                                          *)
(***************************************************************************)
\* An unlock() of a Mutex nobody has locked is under way on l.
MisuseUnderWay(l) ==
    /\ p_turnstile[l] = NULL
    /\ \E u \in Threads : arg[u] = l /\ pc[u] \in {"u_stripe", "u_check"}

CallLock(t, l) ==
    /\ pc[t] = "idle"
    /\ held[t] = {}
    /\ ncalls < MaxCalls
    /\ ~MisuseUnderWay(l)
    /\ pc' = [pc EXCEPT ![t] = "l_stripe"]
    /\ arg' = [arg EXCEPT ![t] = l]
    /\ ncalls' = ncalls + 1
    /\ UNCHANGED <<p_turnstile, heap, mutex, self, canDrop, held, nmisuse, raised, ub>>

CallUnlock(t, l) ==
    /\ pc[t] = "idle"
    /\ l \in held[t]
    /\ pc' = [pc EXCEPT ![t] = "u_stripe"]
    /\ arg' = [arg EXCEPT ![t] = l]
    /\ held' = [held EXCEPT ![t] = @ \ {l}]
    /\ UNCHANGED <<p_turnstile, heap, mutex, self, canDrop, ncalls, nmisuse, raised, ub>>

CallUnlockUnheld(t, l) ==
    /\ pc[t] = "idle"
    /\ nmisuse < MaxMisuse
    /\ p_turnstile[l] = NULL
    /\ \A u \in Threads : arg[u] # l
    /\ pc' = [pc EXCEPT ![t] = "u_stripe"]
    /\ arg' = [arg EXCEPT ![t] = l]
    /\ nmisuse' = nmisuse + 1
    /\ UNCHANGED <<p_turnstile, heap, mutex, self, canDrop, held, ncalls, raised, ub>>

\* lock() called by a thread on a Mutex it has locked and not unlocked.
CallLockRecursive(t, l) ==
    /\ pc[t] = "idle"
    /\ l \in held[t]
    /\ ncalls < MaxCalls
    /\ pc' = [pc EXCEPT ![t] = "l_stripe"]
    /\ arg' = [arg EXCEPT ![t] = l]
    /\ ncalls' = ncalls + 1
    /\ UNCHANGED <<p_turnstile, heap, mutex, self, canDrop, held, nmisuse, raised, ub>>

\* UnlockGlobal with the statement mutex[mutex_id].unlock() left out.
UnlockGlobalForgotten(l) == UNCHANGED mutex

\* mutex[mutex_id].unlock();
UnlockGlobal(l) == mutex' = [mutex EXCEPT ![MutexId(l)] = NoThread]

\* The call of thread t returns (or throws) to its caller.
Leave(t) ==
    /\ pc' = [pc EXCEPT ![t] = "idle"]
    /\ arg' = [arg EXCEPT ![t] = NoLock]
    /\ self' = [self EXCEPT ![t] = NULL]
    /\ canDrop' = [canDrop EXCEPT ![t] = FALSE]

\* lock() returns: the thread now owns the Mutex.
ReturnFromLock(t) ==
    /\ Leave(t)
    /\ held' = [held EXCEPT ![t] = @ \cup {arg[t]}]

(***************************************************************************)
(* void Mutex::lock()                                                      *)
(***************************************************************************)
\* mutex[mutex_id].lock();
LockStripe(t) ==
    /\ pc[t] = "l_stripe"
    /\ mutex[MutexId(arg[t])] = NoThread
    /\ mutex' = [mutex EXCEPT ![MutexId(arg[t])] = t]
    /\ pc' = [pc EXCEPT ![t] = "l_check"]
    /\ UNCHANGED <<p_turnstile, heap, arg, self, canDrop, held, ncalls, nmisuse, raised, ub>>

\* The three branches on p_turnstile, with the global mutex held:
\*  (1) nullptr: the pointer is set to the gate, the global mutex is
\*      unlocked and lock() returns;
\*  (2) the gate: a turnstile is created and entered;
\*  (3) a turnstile: it is entered.
LockCheck(t) ==
    LET l == arg[t] IN
    /\ pc[t] = "l_check"
    /\ IF p_turnstile[l] = NULL
       THEN /\ p_turnstile' = [p_turnstile EXCEPT ![l] = GATE]
            /\ UnlockGlobal(l)
            /\ ReturnFromLock(t)
            /\ UNCHANGED heap
       ELSE IF p_turnstile[l] = GATE
       THEN /\ heap' = Append(heap, NewTurnstile)
            /\ p_turnstile' = [p_turnstile EXCEPT ![l] = Len(heap) + 1]
            /\ self' = [self EXCEPT ![t] = Len(heap) + 1]
            /\ pc' = [pc EXCEPT ![t] = "g_enter"]
            /\ UNCHANGED <<mutex, arg, canDrop, held>>
       ELSE /\ self' = [self EXCEPT ![t] = p_turnstile[l]]
            /\ pc' = [pc EXCEPT ![t] = "g_enter"]
            /\ UNCHANGED <<p_turnstile, heap, mutex, arg, canDrop, held>>
    /\ UNCHANGED <<ncalls, nmisuse, raised, ub>>

\* Branch (2) when one of new Mutex::turnstile, new std::mutex and
\* new std::condition_variable throws std::bad_alloc: the assignment to
\* p_turnstile is not made and the exception leaves lock(); no statement
\* between the new-expression and the caller unlocks the global mutex.
LockAllocFails(t) ==
    /\ pc[t] = "l_check"
    /\ p_turnstile[arg[t]] = GATE
    /\ Leave(t)
    /\ UNCHANGED <<p_turnstile, heap, mutex, held, ncalls, nmisuse, raised, ub>>

(***************************************************************************)
(* void turnstile::go_through(uintptr_t mutex_id)                          *)
(***************************************************************************)
\* std::unique_lock<std::mutex> lck(*this->cv_m); this->cnt_waiting++;
\* mutex[mutex_id].unlock();
GoThroughEnter(t) ==
    LET id == self[t] IN
    /\ pc[t] = "g_enter"
    /\ IF BadAccess(id) # {}
       THEN Fault(t, BadAccess(id))
       ELSE /\ CvmFree(heap[id])
            /\ heap' = [heap EXCEPT ![id].cv_m = t,
                                    ![id].cnt_waiting = @ + 1]
            /\ UnlockGlobal(arg[t])
            /\ pc' = [pc EXCEPT ![t] = "g_pred"]
            /\ UNCHANGED <<p_turnstile, arg, self, canDrop, held, ncalls,
                           nmisuse, raised, ub>>

\* The predicate of cv->wait(lck, ...), evaluated with cv_m held: when wait
\* is false the thread leaves the queue and closes the turnstile again;
\* otherwise cv->wait unlocks cv_m and blocks.
GoThroughPred(t) ==
    LET id == self[t] IN
    /\ pc[t] = "g_pred"
    /\ IF BadAccess(id) # {}
       THEN Fault(t, BadAccess(id))
       ELSE /\ IF MayPass(heap[id])
               THEN /\ heap' = [heap EXCEPT ![id] = PassPredicate(@)]
                    /\ pc' = [pc EXCEPT ![t] = "g_after"]
               ELSE /\ heap' = [heap EXCEPT ![id].cv_m = NoThread]
                    /\ pc' = [pc EXCEPT ![t] = "g_sleep"]
            /\ UNCHANGED <<p_turnstile, mutex, arg, self, canDrop, held,
                           ncalls, nmisuse, raised, ub>>

\* A thread blocked in cv->wait() wakes without a notify.
SpuriousWakeup(t) ==
    /\ pc[t] = "g_sleep"
    /\ pc' = [pc EXCEPT ![t] = "g_wake"]
    /\ UNCHANGED <<p_turnstile, heap, mutex, arg, self, canDrop, held, ncalls,
                   nmisuse, raised, ub>>

\* A woken thread takes cv_m again before the predicate is evaluated.
GoThroughReacquire(t) ==
    LET id == self[t] IN
    /\ pc[t] = "g_wake"
    /\ IF BadAccess(id) # {}
       THEN Fault(t, BadAccess(id))
       ELSE /\ CvmFree(heap[id])
            /\ heap' = [heap EXCEPT ![id].cv_m = t]
            /\ pc' = [pc EXCEPT ![t] = "g_pred"]
            /\ UNCHANGED <<p_turnstile, mutex, arg, self, canDrop, held,
                           ncalls, nmisuse, raised, ub>>

\* if (this->empty()) { lck.unlock(); delete this; } -- otherwise lck's
\* destructor unlocks cv_m and lock() returns.
GoThroughAfter(t) ==
    LET id == self[t] IN
    /\ pc[t] = "g_after"
    /\ IF BadAccess(id) # {}
       THEN Fault(t, BadAccess(id))
       ELSE /\ heap' = [heap EXCEPT ![id].cv_m = NoThread]
            /\ IF empty(heap[id])
               THEN /\ pc' = [pc EXCEPT ![t] = "g_delete"]
                    /\ UNCHANGED <<arg, self, canDrop, held>>
               ELSE ReturnFromLock(t)
            /\ UNCHANGED <<p_turnstile, mutex, ncalls, nmisuse, raised, ub>>

\* delete this; then lock() returns.  Deleting a turnstile twice, or one
\* whose cv_m is locked or whose cv has blocked threads, is undefined.
GoThroughDelete(t) ==
    LET id == self[t]
        what == (IF ~heap[id].live THEN {"double_free"} ELSE {})
                \cup (IF heap[id].cv_m # NoThread \/ Sleepers(id) # {}
                      THEN {"destroy_busy"} ELSE {})
    IN
    /\ pc[t] = "g_delete"
    /\ heap' = [heap EXCEPT ![id] = Freed]
    /\ ub' = ub \cup what
    /\ ReturnFromLock(t)
    /\ UNCHANGED <<p_turnstile, mutex, ncalls, nmisuse, raised>>

(***************************************************************************)
(* void Mutex::unlock()                                                    *)
(***************************************************************************)
\* mutex[mutex_id].lock();
UnlockStripe(t) ==
    /\ pc[t] = "u_stripe"
    /\ mutex[MutexId(arg[t])] = NoThread
    /\ mutex' = [mutex EXCEPT ![MutexId(arg[t])] = t]
    /\ pc' = [pc EXCEPT ![t] = "u_check"]
    /\ UNCHANGED <<p_turnstile, heap, arg, self, canDrop, held, ncalls, nmisuse, raised, ub>>

\* The three branches on p_turnstile, with the global mutex held:
\*  (1) nullptr: throw; the statement mutex[mutex_id].unlock() at the end
\*      of unlock() is not reached;
\*  (2) the gate: the pointer is set to nullptr, the global mutex is
\*      unlocked and unlock() returns;
\*  (3) a turnstile: canDrop is read from it before it is spun.
UnlockCheck(t) ==
    LET l == arg[t]
        id == p_turnstile[l]
    IN
    /\ pc[t] = "u_check"
    /\ IF id = NULL
       THEN /\ raised' = raised \cup {l}
            /\ Leave(t)
            /\ UNCHANGED <<p_turnstile, heap, mutex, held, ncalls, nmisuse, ub>>
       ELSE IF id = GATE
       THEN /\ p_turnstile' = [p_turnstile EXCEPT ![l] = NULL]
            /\ UnlockGlobal(l)
            /\ Leave(t)
            /\ UNCHANGED <<heap, held, ncalls, nmisuse, raised, ub>>
       ELSE IF BadAccess(id) # {}
       THEN Fault(t, BadAccess(id))
       ELSE /\ self' = [self EXCEPT ![t] = id]
            /\ canDrop' = [canDrop EXCEPT ![t] = canDropAfterSpin(heap[id])]
            /\ pc' = [pc EXCEPT ![t] = "u_spin"]
            /\ UNCHANGED <<p_turnstile, heap, mutex, arg, held, ncalls,
                           nmisuse, raised, ub>>

\* NotifyOne with the call cv->notify_one() left out of spin().
NotifyNobody(id, t) == pc' = [pc EXCEPT ![t] = "u_drop"]

\* What cv->notify_one() may do to the threads blocked in cv->wait(): wake
\* one of them, or nothing when there is none.
NotifyOne(id, t) ==
    IF Sleepers(id) = {}
    THEN pc' = [pc EXCEPT ![t] = "u_drop"]
    ELSE \E w \in Sleepers(id) :
            pc' = [pc EXCEPT ![t] = "u_drop", ![w] = "g_wake"]

\* void turnstile::spin(): lock cv_m, wait = false, notify_one, unlock cv_m.
\* When spin() has returned, unlock() has no pointer to the turnstile left
\* but p_turnstile.
UnlockSpin(t) ==
    LET id == self[t] IN
    /\ pc[t] = "u_spin"
    /\ IF BadAccess(id) # {}
       THEN Fault(t, BadAccess(id))
       ELSE /\ CvmFree(heap[id])
            /\ heap' = [heap EXCEPT ![id].wait = FALSE]
            /\ NotifyOne(id, t)
            /\ self' = [self EXCEPT ![t] = NULL]
            /\ UNCHANGED <<p_turnstile, mutex, arg, canDrop, held,
                           ncalls, nmisuse, raised, ub>>

\* DroppedTag with the assignment left out.
DroppedTagNever(drop, p) == p

\* DroppedTag with nullptr assigned in place of &gate_turnstile.
DroppedTagNull(drop, p) == IF drop THEN NULL ELSE p

\* if (canDrop) this->p_turnstile = &gate_turnstile;
DroppedTag(drop, p) == IF drop THEN GATE ELSE p

\* if (canDrop) this->p_turnstile = &gate_turnstile;
\* mutex[mutex_id].unlock();
UnlockDrop(t) ==
    LET l == arg[t] IN
    /\ pc[t] = "u_drop"
    /\ p_turnstile' = [p_turnstile EXCEPT ![l] = DroppedTag(canDrop[t], @)]
    /\ UnlockGlobal(l)
    /\ Leave(t)
    /\ UNCHANGED <<heap, held, ncalls, nmisuse, raised, ub>>

\* std::mutex::lock() by the thread that already owns the mutex is
\* undefined: the thread blocks for ever (no step), or lock() throws
\* std::system_error and the call ends without having done anything.
RelockError(t) ==
    /\ pc[t] \in {"l_stripe", "u_stripe"}
    /\ mutex[MutexId(arg[t])] = t
    /\ Leave(t)
    /\ UNCHANGED <<p_turnstile, heap, mutex, held, ncalls, nmisuse, raised, ub>>

(***************************************************************************)
(* Specifications.                                                         *)
(***************************************************************************)
\* One step of the code of lock() or unlock() by thread t.
CodeStep(t) ==
    \/ LockStripe(t)
    \/ LockCheck(t)
    \/ GoThroughEnter(t)
    \/ GoThroughPred(t)
    \/ GoThroughReacquire(t)
    \/ GoThroughAfter(t)
    \/ GoThroughDelete(t)
    \/ UnlockStripe(t)
    \/ UnlockCheck(t)
    \/ UnlockSpin(t)
    \/ UnlockDrop(t)

\* Clients that follow the protocol (unlock() only by the owner) and
\* contend for the one Mutex TheLock.
TheLock == "A"

OneLockNext ==
    \E t \in Threads :
        \/ CallLock(t, TheLock)
        \/ CallUnlock(t, TheLock)
        \/ CodeStep(t)
        \/ SpuriousWakeup(t)

\* Clients that may also call unlock() on a Mutex nobody has locked.
Next ==
    \E t \in Threads :
        \/ \E l \in Locks : CallLock(t, l)
        \/ \E l \in Locks : CallUnlock(t, l)
        \/ \E l \in Locks : CallUnlockUnheld(t, l)
        \/ CodeStep(t)
        \/ SpuriousWakeup(t)
        \/ RelockError(t)

Spec == Init /\ [][Next]_vars

\* Clients that follow the protocol but for calling lock() on a Mutex they
\* already own.
RecursiveNext ==
    \E t \in Threads :
        \/ \E l \in Locks : CallLock(t, l)
        \/ \E l \in Locks : CallUnlock(t, l)
        \/ \E l \in Locks : CallLockRecursive(t, l)
        \/ CodeStep(t)
        \/ SpuriousWakeup(t)

RecursiveSpec == Init /\ [][RecursiveNext]_vars

\* Clients that follow the protocol, with an allocator that may fail.
ExhaustionNext ==
    \E t \in Threads :
        \/ \E l \in Locks : CallLock(t, l)
        \/ \E l \in Locks : CallUnlock(t, l)
        \/ CodeStep(t)
        \/ LockAllocFails(t)
        \/ SpuriousWakeup(t)
        \/ RelockError(t)

ExhaustionSpec == Init /\ [][ExhaustionNext]_vars

\* Fair scheduling: a thread whose next step of lock() or unlock() is
\* possible again and again eventually takes it (a thread blocked in
\* std::mutex::lock() is not overtaken for ever), and a thread that owns a
\* Mutex eventually calls unlock().  Calling lock() and spurious wakeups
\* are not required to happen.
Fairness ==
    \A t \in Threads :
        /\ SF_vars(CodeStep(t))
        /\ WF_vars(\E l \in Locks : CallUnlock(t, l))

FairSpec == Init /\ [][OneLockNext]_vars /\ Fairness

(***************************************************************************)
(* Properties.                                                             *)
(***************************************************************************)
\* The threads between their return from lock() on l and their call of
\* unlock() on l.
Owners(l) == {t \in Threads : l \in held[t]}

\* Thread t is outside every call of lock() and unlock().
Outside(t) == pc[t] = "idle"

\* C1: mutual exclusion -- in every reachable state at most one thread is
\* between its return from lock() and its call of unlock() on a Mutex, for
\* every interleaving, with new acquirers entering the turnstile while a
\* wake is pending and with spurious wakeups.
MutualExclusion == \A l \in Locks : Cardinality(Owners(l)) <= 1

\* A thread owns l while a wake is pending for a second thread of l's
\* turnstile and a third one is still blocked in it.
MutualExclusionWitness ==
    \E l \in Locks, t, w, s \in Threads :
        /\ l \in held[t]
        /\ pc[w] = "g_wake" /\ arg[w] = l
        /\ pc[s] = "g_sleep" /\ arg[s] = l

\* C2: liveness under bounded contention -- with clients that follow the
\* protocol and fair scheduling, every call of lock() and unlock() returns
\* and in the end every thread is outside every call and owns nothing; no
\* thread sleeps in a turnstile for ever.
BoundedContentionLiveness ==
    /\ \A t \in Threads : (~Outside(t)) ~> Outside(t)
    /\ <>[](\A t \in Threads : Outside(t) /\ held[t] = {})

\* A thread is blocked in a turnstile whose wake flag has been set for a
\* Mutex that nobody owns: the notify went to another thread.
BoundedContentionWitness ==
    \E t \in Threads :
        /\ pc[t] = "g_sleep"
        /\ ~heap[self[t]].wait
        /\ Owners(arg[t]) = {}

\* Thread t takes a step of its call in this step.
Steps(t) == pc'[t] # pc[t]

\* C3: unlock() called while p_turnstile is nullptr fails, leaves
\* p_turnstile nullptr, and has unlocked the global mutex of the Mutex by
\* the time the error reaches the caller.
FailedUnlockReleasesStripe ==
    [][\A t \in Threads :
          (pc[t] = "u_check" /\ p_turnstile[arg[t]] = NULL /\ Steps(t))
          => /\ Outside(t)'
             /\ arg[t] \in raised'
             /\ p_turnstile'[arg[t]] = NULL
             /\ mutex'[MutexId(arg[t])] = NoThread]_vars

\* C4: after unlock() on a Mutex has thrown, the Mutex remains usable --
\* a later lock() on it, made while every other thread is outside every
\* call, is able to take the global mutex and go on.
UsableAfterFailedUnlock ==
    \A t \in Threads :
        (/\ pc[t] = "l_stripe"
         /\ arg[t] \in raised
         /\ \A u \in Threads \ {t} : Outside(u))
        => mutex[MutexId(arg[t])] = NoThread

\* C5: each heap turnstile is destroyed at most once, by a thread that has
\* passed the wait predicate of that turnstile and found it empty; no other
\* thread is in the turnstile then, and gate_turnstile is never entered.
TurnstileSingleDestruction ==
    /\ [](ub \cap {"double_free", "null_deref"} = {})
    /\ [][\A id \in DOMAIN heap :
            (heap[id].live /\ ~heap'[id].live)
            => /\ heap[id].cnt_waiting = 0
               /\ \E t \in Threads :
                    /\ pc[t] = "g_delete" /\ self[t] = id
                    /\ Outside(t)' /\ arg[t] \in held'[t]
                    /\ \A u \in Threads \ {t} : self[u] # id]_vars

\* A turnstile has been destroyed after three threads went through it.
TurnstileSingleDestructionWitness ==
    \E id \in DOMAIN heap :
        /\ ~heap[id].live
        /\ ncalls >= 4
        /\ Len(heap) = 1

\* The positions of a call at which `this` of a turnstile is in use.
TurnstilePcs == {"g_enter", "g_pred", "g_sleep", "g_wake", "g_after",
                 "g_delete", "u_spin"}

\* C6: no use after free -- no thread accesses a destroyed turnstile, a
\* turnstile is not destroyed while a thread is in it, and every thread in
\* go_through() or spin() is in a live turnstile.
NoUseAfterFree ==
    /\ ub \cap {"use_after_free", "destroy_busy"} = {}
    /\ \A t \in Threads :
         pc[t] \in TurnstilePcs => IsHeap(self[t]) /\ heap[self[t]].live

\* A thread is entering a second turnstile of a Mutex after the first one
\* has been destroyed.
NoUseAfterFreeWitness ==
    \E t \in Threads :
        /\ pc[t] = "g_enter"
        /\ self[t] = 2
        /\ ~heap[1].live
        /\ \A l \in Locks : p_turnstile[l] \in {NULL, 2}

\* The positions of a call at which the thread owns the global mutex.
StripePcs == {"l_check", "g_enter", "u_check", "u_spin", "u_drop"}

\* C7: unlock() never blocks on a thread that is in its critical section
\* or asleep -- whenever unlock() waits for the global mutex, the mutex is
\* owned by a thread that is inside lock() or unlock() and about to unlock
\* it.
UnlockNeverBlocked ==
    \A t \in Threads :
        pc[t] = "u_stripe"
        => \/ mutex[MutexId(arg[t])] = NoThread
           \/ pc[mutex[MutexId(arg[t])]] \in StripePcs

\* C8: the uncontended path -- lock() that finds nullptr sets the gate,
\* unlocks the global mutex and returns at once, creating no turnstile;
\* unlock() that finds the gate sets nullptr and unlocks the global mutex.
UncontendedPath ==
    [][\A t \in Threads :
          /\ (pc[t] = "l_check" /\ p_turnstile[arg[t]] = NULL /\ Steps(t))
             => /\ p_turnstile'[arg[t]] = GATE
                /\ mutex'[MutexId(arg[t])] = NoThread
                /\ Outside(t)' /\ arg[t] \in held'[t]
                /\ heap' = heap
          /\ (pc[t] = "u_check" /\ p_turnstile[arg[t]] = GATE /\ Steps(t))
             => /\ p_turnstile'[arg[t]] = NULL
                /\ mutex'[MutexId(arg[t])] = NoThread
                /\ Outside(t)'
                /\ heap' = heap]_vars

\* One thread has locked and unlocked a Mutex and nothing else happened.
UncontendedPathWitness ==
    /\ ncalls = 1 /\ nmisuse = 0
    /\ heap = <<>>
    /\ \A l \in Locks : p_turnstile[l] = NULL
    /\ \A t \in Threads : Outside(t) /\ held[t] = {}
    /\ \A i \in MutexIds : mutex[i] = NoThread

\* C9: the single contender -- lock() that finds the gate creates a
\* turnstile, points p_turnstile at it and enters it; a thread in a
\* turnstile goes past the predicate only when the Mutex has no owner;
\* unlock() that finds one thread counted has canDrop true, wakes the
\* sleeper and sets the gate; the woken thread leaves the turnstile empty,
\* destroys it and returns as owner; and unlock() of a Mutex that no other
\* thread is calling finds the gate and sets nullptr.
SingleContender ==
    /\ [](\A t \in Threads :
            pc[t] \in {"g_after", "g_delete"} => Owners(arg[t]) = {})
    /\ [][\A t \in Threads :
            LET l == arg[t]
                id == self[t]
            IN
            /\ (pc[t] = "l_check" /\ p_turnstile[l] = GATE /\ Steps(t))
               => /\ Len(heap') = Len(heap) + 1
                  /\ heap'[Len(heap')] = NewTurnstile
                  /\ p_turnstile'[l] = Len(heap')
                  /\ pc'[t] = "g_enter"
                  /\ l \notin held'[t]
            /\ (pc[t] = "u_check" /\ IsHeap(p_turnstile[l]) /\ Steps(t)
                  /\ heap[p_turnstile[l]].cnt_waiting = 1)
               => canDrop'[t]
            /\ (pc[t] = "u_spin" /\ canDrop[t] /\ Steps(t))
               => /\ ~heap'[id].wait
                  /\ \A w \in Sleepers(id) : pc'[w] = "g_wake"
            /\ (pc[t] = "u_drop" /\ canDrop[t] /\ Steps(t))
               => /\ p_turnstile'[l] = GATE
                  /\ mutex'[MutexId(l)] = NoThread
                  /\ Outside(t)'
            /\ (pc[t] = "g_pred" /\ Steps(t) /\ ~heap[id].wait
                  /\ heap[id].cnt_waiting = 1)
               => heap'[id].cnt_waiting = 0 /\ pc'[t] = "g_after"
            /\ (pc[t] = "g_after" /\ Steps(t) /\ heap[id].cnt_waiting = 0)
               => pc'[t] = "g_delete"
            /\ (pc[t] = "g_delete" /\ Steps(t))
               => ~heap'[id].live /\ Outside(t)' /\ l \in held'[t]
            /\ (pc[t] = "u_check" /\ p_turnstile[l] # NULL /\ Steps(t)
                  /\ \A u \in Threads \ {t} : arg[u] # l)
               => p_turnstile[l] = GATE /\ p_turnstile'[l] = NULL]_vars

\* Two lock() calls and their unlock() calls are over, one turnstile was
\* created and destroyed, and the Mutexes are unlocked again.
SingleContenderWitness ==
    /\ ncalls = 2 /\ nmisuse = 0
    /\ Len(heap) = 1 /\ ~heap[1].live
    /\ \A l \in Locks : p_turnstile[l] = NULL
    /\ \A t \in Threads : Outside(t) /\ held[t] = {}

\* C10: stripe collisions are tolerated -- no thread owns a global mutex
\* while it is in the critical section of a Mutex or blocked in a
\* turnstile, so calls on another Mutex of the same global mutex go on.
NoStripeInCriticalSection ==
    \A t \in Threads :
        ((Outside(t) /\ held[t] # {}) \/ pc[t] \in {"g_sleep", "g_wake"})
        => \A i \in MutexIds : mutex[i] # t

\* The positions of a call of lock().
LockPcs == {"l_stripe", "l_check", "g_enter", "g_pred", "g_sleep", "g_wake",
            "g_after", "g_delete"}

\* Thread t is in a call of lock() on a Mutex that it owns.
InRecursiveLock(t) == pc[t] \in LockPcs /\ arg[t] \in held[t]

\* C11: recursive acquisition deadlocks -- a thread that calls lock() on a
\* Mutex it owns never goes past the wait predicate and never returns from
\* that call (only the owner calls unlock(), and the owner is in lock()).
RecursiveLockNeverReturns ==
    [][\A t \in Threads :
          InRecursiveLock(t)
          => InRecursiveLock(t)' /\ pc'[t] \notin {"g_after", "g_delete"}]_vars

\* The owner of a Mutex is blocked in the turnstile of that Mutex, together
\* with a second thread.
RecursiveLockWitness ==
    \E t, u \in Threads :
        /\ t # u
        /\ pc[t] = "g_sleep" /\ arg[t] \in held[t]
        /\ pc[u] = "g_sleep" /\ arg[u] = arg[t]

\* C12: resource exhaustion -- when lock() on a Mutex whose pointer is the
\* gate ends without a turnstile having been created, the pointer is still
\* the gate, the caller does not own the Mutex, and the global mutex of the
\* Mutex has been unlocked, so that the owner's unlock() can take it.
AllocFailureReleasesStripe ==
    [][\A t \in Threads :
          (pc[t] = "l_check" /\ p_turnstile[arg[t]] = GATE /\ Outside(t)')
          => /\ p_turnstile'[arg[t]] = GATE
             /\ heap' = heap
             /\ arg[t] \notin held'[t]
             /\ mutex'[MutexId(arg[t])] = NoThread]_vars

\* C13: the tag state machine -- every change of a Mutex's p_turnstile is
\* nullptr -> gate (lock), gate -> a turnstile created in that step
\* (lock), turnstile -> gate (unlock that read cnt_waiting == 1), or
\* gate -> nullptr (unlock); never turnstile -> nullptr, nullptr ->
\* turnstile, or turnstile -> another turnstile.
TagStateMachine ==
    [][\A l \in Locks :
          p_turnstile'[l] # p_turnstile[l]
          => \/ /\ p_turnstile[l] = NULL /\ p_turnstile'[l] = GATE
                /\ \E t \in Threads : pc[t] = "l_check" /\ arg[t] = l /\ Steps(t)
             \/ /\ p_turnstile[l] = GATE
                /\ p_turnstile'[l] = Len(heap) + 1
                /\ Len(heap') = Len(heap) + 1
                /\ \E t \in Threads : pc[t] = "l_check" /\ arg[t] = l /\ Steps(t)
             \/ /\ IsHeap(p_turnstile[l]) /\ p_turnstile'[l] = GATE
                /\ \E t \in Threads :
                      pc[t] = "u_drop" /\ arg[t] = l /\ canDrop[t] /\ Steps(t)
             \/ /\ p_turnstile[l] = GATE /\ p_turnstile'[l] = NULL
                /\ \E t \in Threads : pc[t] = "u_check" /\ arg[t] = l /\ Steps(t)]_vars

\* A Mutex is back at the gate after its turnstile took three threads, and
\* the thread let through last owns it.
TagStateMachineWitness ==
    \E l \in Locks, t \in Threads :
        /\ p_turnstile[l] = GATE
        /\ l \in held[t]
        /\ Len(heap) = 1 /\ ~heap[1].live
        /\ ncalls = 4
        /\ \A u \in Threads : arg[u] \notin Locks \ {l}

\* The pcs of a thread counted in cnt_waiting that has not passed the wait
\* predicate.
WaitingPcs == {"g_pred", "g_sleep", "g_wake"}

\* spin() has cleared the wait flag of the turnstile of l and no thread has
\* passed the predicate since.
WakePendingOn(l) ==
    \E t \in Threads :
        /\ arg[t] = l /\ pc[t] \in WaitingPcs
        /\ heap[self[t]].live /\ ~heap[self[t]].wait

\* C14: exactly one handoff per unlock() -- while the wake of a spin() is
\* pending the Mutex has no owner, no thread is past the predicate and no
\* further unlock() is under way (not two, and the next unlock() comes after
\* the handoff); a thread passes the predicate only by consuming the wake;
\* and a pending wake leads to a thread owning the Mutex (not zero).
ExactlyOneHandoff ==
    /\ [](\A l \in Locks :
            WakePendingOn(l)
            => /\ Owners(l) = {}
               /\ \A u \in Threads :
                    arg[u] = l
                    => pc[u] \notin {"g_after", "g_delete", "u_stripe",
                                     "u_check", "u_spin"})
    /\ [][\A t \in Threads :
            (pc[t] = "g_pred" /\ pc'[t] = "g_after")
            => ~heap[self[t]].wait /\ heap'[self[t]].wait]_vars
    /\ \A l \in Locks : WakePendingOn(l) ~> (Owners(l) # {})

\* A wake is pending, notify_one has woken one thread of the turnstile, and
\* another thread holds cv_m in front of the predicate.
ExactlyOneHandoffWitness ==
    \E t, u \in Threads :
        /\ pc[t] = "g_wake" /\ pc[u] = "g_pred" /\ self[t] = self[u]
        /\ ~heap[self[u]].wait /\ heap[self[u]].cv_m = u
        /\ heap[self[u]].cnt_waiting = 2

\* After the unlock() calls under way on l have assigned p_turnstile, it
\* still points at turnstile id.
TagStays(l, id) ==
    /\ p_turnstile[l] = id
    /\ \A u \in Threads : (pc[u] = "u_drop" /\ arg[u] = l) => ~canDrop[u]

\* C15: canDropAfterSpin() is a race-free snapshot -- from the read of
\* cnt_waiting to the call of spin() the unlocking thread owns the stripe,
\* the turnstile is live with wait == true, canDrop equals
\* (cnt_waiting == 1) and no step changes cnt_waiting; and the thread that
\* passes the predicate leaves cnt_waiting == 0 exactly when unlock() has
\* moved, or is about to move, p_turnstile off the turnstile.
CanDropSnapshot ==
    /\ [](\A t \in Threads :
            pc[t] = "u_spin"
            => /\ IsHeap(self[t]) /\ heap[self[t]].live
               /\ heap[self[t]].wait
               /\ mutex[MutexId(arg[t])] = t
               /\ heap[self[t]].cnt_waiting >= 1
               /\ canDrop[t] = (heap[self[t]].cnt_waiting = 1))
    /\ [][\A t \in Threads :
            (pc[t] = "u_spin" /\ pc'[t] = "u_spin")
            => /\ heap'[self[t]].cnt_waiting = heap[self[t]].cnt_waiting
               /\ heap'[self[t]].wait = heap[self[t]].wait]_vars
    /\ [][\A t \in Threads :
            (pc[t] = "g_pred" /\ pc'[t] = "g_after")
            => ((heap'[self[t]].cnt_waiting = 0) <=> ~TagStays(arg[t], self[t]))]_vars

\* unlock() has read cnt_waiting == 1 and has not called spin(); another
\* thread is calling lock() on the same Mutex and waits for the stripe.
CanDropSnapshotWitness ==
    \E t, u \in Threads :
        /\ pc[t] = "u_spin" /\ canDrop[t]
        /\ pc[u] = "l_stripe" /\ arg[u] = arg[t]
        /\ Sleepers(self[t]) # {}

\* The spin() that lets the last counted thread of turnstile id through has
\* happened: the wake is pending for the only counted thread, or that thread
\* has passed the predicate and left cnt_waiting == 0.
LastWaiterReleased(id) ==
    /\ heap[id].live
    /\ \/ ~heap[id].wait /\ heap[id].cnt_waiting = 1
       \/ /\ heap[id].cnt_waiting = 0
          /\ \E t \in Threads : self[t] = id /\ pc[t] \in {"g_after", "g_delete"}

\* p_turnstile of l points at a turnstile that is destroyed or whose last
\* waiter has been released.
Stale(l) ==
    /\ IsHeap(p_turnstile[l])
    /\ ~heap[p_turnstile[l]].live \/ LastWaiterReleased(p_turnstile[l])

\* C16 as stated: in no reachable state does p_turnstile point at a
\* turnstile whose last waiter has been released by spin(), or that has been
\* destroyed.
TagDroppedBeforeLastRelease == \A l \in Locks : ~Stale(l)

\* C16: p_turnstile points at a turnstile whose last waiter has been
\* released (or that is destroyed) only while the thread whose spin()
\* released that waiter is between spin() and its assignment of
\* &gate_turnstile, owning the stripe; no other thread is at a read of
\* p_turnstile then.
StaleTagOnlyUnderStripe ==
    \A l \in Locks :
        Stale(l)
        => \E t \in Threads :
              /\ pc[t] = "u_drop" /\ arg[t] = l /\ canDrop[t]
              /\ mutex[MutexId(l)] = t
              /\ \A u \in Threads \ {t} :
                    arg[u] = l => pc[u] \notin {"l_check", "u_check", "u_drop"}

\* The turnstile p_turnstile points at has been destroyed by the thread
\* that spin() let through, which owns the Mutex now.
StaleTagWitness ==
    \E l \in Locks :
        /\ IsHeap(p_turnstile[l]) /\ ~heap[p_turnstile[l]].live
        /\ Owners(l) # {}

\* The fields of turnstile id that the wait predicate writes are the same
\* before and after the step.
CountAndFlagKept(id) ==
    /\ heap'[id].cnt_waiting = heap[id].cnt_waiting
    /\ heap'[id].wait = heap[id].wait

\* C17: spurious wakeups are tolerated -- a thread that evaluates the
\* predicate while wait is true changes neither cnt_waiting nor wait, does
\* not return from lock() and blocks again; a woken thread only takes cv_m
\* and evaluates the predicate; a thread goes past cv->wait() only from the
\* predicate, holding cv_m, with wait false.
SpuriousWakeupsTolerated ==
    [][\A t \in Threads :
          /\ (pc[t] = "g_pred" /\ heap[self[t]].wait /\ Steps(t))
             => /\ pc'[t] = "g_sleep"
                /\ CountAndFlagKept(self[t])
                /\ held'[t] = held[t]
          /\ (pc[t] = "g_sleep" /\ Steps(t))
             => /\ pc'[t] = "g_wake"
                /\ heap'[self[t]].cnt_waiting = heap[self[t]].cnt_waiting
                /\ held'[t] = held[t]
          /\ (pc[t] = "g_wake" /\ Steps(t))
             => /\ pc'[t] = "g_pred"
                /\ heap'[self[t]].cv_m = t
                /\ CountAndFlagKept(self[t])
                /\ held'[t] = held[t]
          /\ (pc'[t] = "g_after" /\ Steps(t))
             => /\ pc[t] = "g_pred"
                /\ heap[self[t]].cv_m = t
                /\ ~heap[self[t]].wait]_vars

\* A thread has woken in cv->wait() while wait is true and cv_m is free, and
\* another thread owns the Mutex.
SpuriousWakeupWitness ==
    \E t \in Threads :
        /\ pc[t] = "g_wake"
        /\ heap[self[t]].live /\ heap[self[t]].wait
        /\ heap[self[t]].cv_m = NoThread
        /\ Owners(arg[t]) # {}

\* Thread t takes a step in turnstile id with cv_m its own: it owns cv_m, or
\* cv_m is free and the step locks it.
StepsUnderCvm(t, id) ==
    /\ Steps(t) /\ self[t] = id
    /\ heap[id].cv_m \in {NoThread, t}

\* C18: locking discipline -- a thread at an access of p_turnstile owns the
\* stripe of that Mutex and only the owner of the stripe changes
\* p_turnstile; cnt_waiting and wait of a turnstile change only in a step of
\* a thread that has cv_m locked (never while another thread owns cv_m);
\* cnt_waiting grows only in a step of a thread that also owns the stripe of
\* the Mutex whose p_turnstile points at the turnstile.
LockingDiscipline ==
    /\ [](\A t \in Threads :
            pc[t] \in StripePcs => mutex[MutexId(arg[t])] = t)
    /\ [][\A l \in Locks :
            p_turnstile'[l] # p_turnstile[l]
            => \E t \in Threads :
                  /\ Steps(t) /\ arg[t] = l /\ pc[t] \in StripePcs
                  /\ mutex[MutexId(l)] = t]_vars
    /\ [][\A id \in 1..Len(heap) :
            /\ ~CountAndFlagKept(id)
               => \E t \in Threads : StepsUnderCvm(t, id)
            /\ heap'[id].cnt_waiting > heap[id].cnt_waiting
               => \E t \in Threads :
                     /\ StepsUnderCvm(t, id)
                     /\ mutex[MutexId(arg[t])] = t
                     /\ p_turnstile[arg[t]] = id]_vars

\* unlock() owns the stripe and is about to call spin() while another thread
\* owns cv_m of the turnstile, and a third thread waits for the stripe.
LockingDisciplineWitness ==
    \E t, u, v \in Threads :
        /\ pc[t] = "u_spin" /\ mutex[MutexId(arg[t])] = t
        /\ u # t /\ heap[self[t]].cv_m = u
        /\ pc[v] \in {"l_stripe", "u_stripe"}

\* The turnstiles of l in which spin() has cleared wait and no thread has
\* passed the predicate yet: each has released one of its counted threads.
PendingWakes(l) ==
    {id \in 1..Len(heap) :
        /\ heap[id].live /\ ~heap[id].wait
        /\ \E t \in Threads : arg[t] = l /\ self[t] = id /\ pc[t] \in WaitingPcs}

\* The number of threads counted in a turnstile of l and not released.
WaitingOn(l) ==
    Cardinality({t \in Threads : arg[t] = l /\ pc[t] \in WaitingPcs})
    - Cardinality(PendingWakes(l))

\* The number of threads that have locked l and not unlocked it: its owner,
\* a thread that lock() or spin() has let through and that has not returned
\* from lock() yet, and the owner inside unlock() in front of the stripe.
HasLocked(l) ==
    Cardinality(Owners(l))
    + Cardinality({t \in Threads : arg[t] = l /\ pc[t] \in {"g_after", "g_delete"}})
    + Cardinality(PendingWakes(l))
    + Cardinality({t \in Threads :
                     arg[t] = l /\ pc[t] = "u_stripe" /\ p_turnstile[l] # NULL})

\* C19: the meaning of the pointer -- whenever the stripe of a Mutex is
\* free, p_turnstile points at a heap turnstile iff at least one thread is
\* counted in a turnstile of the Mutex and not released (and these threads
\* are counted in that very turnstile), and p_turnstile is the gate iff
\* exactly one thread has locked the Mutex and no thread is waiting on it.
TagMeaning ==
    \A l \in Locks :
        mutex[MutexId(l)] = NoThread
        => /\ IsHeap(p_turnstile[l]) <=> WaitingOn(l) >= 1
           /\ IsHeap(p_turnstile[l])
              => /\ heap[p_turnstile[l]].live
                 /\ WaitingOn(l) = heap[p_turnstile[l]].cnt_waiting
                                   - (IF heap[p_turnstile[l]].wait THEN 0 ELSE 1)
           /\ p_turnstile[l] = GATE <=> (HasLocked(l) = 1 /\ WaitingOn(l) = 0)

\* The stripe is free and the pointer is back at the gate while the thread
\* that spin() released is still in the dropped turnstile, and another
\* thread is calling lock().
TagMeaningWitness ==
    \E l \in Locks, t \in Threads :
        /\ mutex[MutexId(l)] = NoThread
        /\ p_turnstile[l] = GATE
        /\ PendingWakes(l) # {}
        /\ pc[t] = "l_stripe" /\ arg[t] = l

\* No Mutex is locked and no thread is inside lock() or unlock().
Quiescent ==
    /\ \A l \in Locks : p_turnstile[l] = NULL
    /\ \A t \in Threads : Outside(t)

\* Every turnstile that lock() has allocated has been deleted, once.
AllDestroyed ==
    /\ \A id \in 1..Len(heap) : ~heap[id].live
    /\ "double_free" \notin ub

\* C20: no turnstile leak -- in every quiescent state every turnstile that
\* lock() allocated has been deleted exactly once, and every allocated
\* turnstile is eventually deleted.
NoTurnstileLeak ==
    /\ [](Quiescent => AllDestroyed)
    /\ \A id \in 1..MaxCalls :
          (IsHeap(id) /\ heap[id].live) ~> (IsHeap(id) /\ ~heap[id].live)

\* A quiescent state after lock() has allocated two turnstiles.
NoTurnstileLeakWitness == Quiescent /\ Len(heap) = 2 /\ AllDestroyed

=============================================================================
